---- MODULE Spec2Model ----
(***************************************************************************)
(* Model of the read_until input (lib/input/read_until.go): the worker     *)
(* goroutine ReadUntil.loop, CloseAsync and WaitForClose, together with    *)
(* the wrapped producer and the downstream consumer it talks to over       *)
(* unbuffered channels.  A send/receive pair on an unbuffered channel is   *)
(* one joint step of the two parties.  A Go select with several ready      *)
(* cases picks any of them, so every ready case is a separate action.      *)
(***************************************************************************)
EXTENDS Integers, Sequences, FiniteSets, TLC

(* ------------------------------ bounds --------------------------------- *)
MaxMsgs == 2
MaxProducers == 2
MaxRejects == 1
MaxCloseCalls == 2

Payloads == {"foo", "bar"}
Responses == {"ok", "err"}
Nil == 0

(* ----------------------------- channels -------------------------------- *)
NoChan == [kind |-> "none", n |-> 0]
OrigChan(p) == [kind |-> "orig", n |-> p]
TmpChan(n) == [kind |-> "tmp", n |-> n]
NoTran == [payload |-> "", ack |-> NoChan]
NewTransaction(payload, resChan) == [payload |-> payload, ack |-> resChan]

StatNames ==
  {"running", "restart.error", "restart.success", "input.closed", "count",
   "propagated", "final.propagated", "final.response.sent",
   "final.response.error"}

VARIABLES
  msgs,               \* what every instance of the wrapped producer reads
  restart,            \* conf.Restart
  running,            \* r.running
  wrapped,            \* r.wrapped: Nil or the id of the current producer
  closeChanCloses,    \* number of close(r.closeChan) executed
  transactionsCloses, \* number of close(r.transactions) executed
  closedChanCloses,   \* number of close(r.closedChan) executed
  pc,                 \* position of the worker goroutine in loop()
  tran,               \* loop local: transaction read from the producer
  tmpRes,             \* loop local: intercept channel
  res,                \* loop local: response read from tmpRes
  stats,              \* r.stats counters
  checks,             \* number of r.cond.Check calls
  producers,          \* number of producer instances constructed so far
  prod,               \* current producer instance: [state, idx]
  pCloseReq,          \* wrapped.CloseAsync() was called on the current one
  pClosed,            \* the current producer confirmed its close
  err,                \* cleanup local: result of wrapped.WaitForClose
  consTran,           \* transaction the downstream consumer holds
  consSawClosed,      \* the consumer observed r.transactions closed
  rejects,            \* number of error responses the consumer gave
  sent,               \* payloads the producers handed to the worker
  emitted,            \* transactions delivered on r.transactions
  emittedSrc,         \* for each emitted transaction, its producer id
  relayed,            \* writes of the worker to original response channels
  answers,            \* responses the consumer wrote to intercept channels
  ctorPc,             \* position of the NewReadUntil call
  ctorErr,            \* error NewReadUntil returned, "none" without one
  closing,            \* callers of CloseAsync between its lines 264 and 265
  closeCalls,         \* number of CloseAsync calls made
  flagTransitions,    \* number of 1 -> 0 transitions of r.running
  emittedAtClose      \* Len(emitted) when r.running became 0

vars ==
  <<msgs, restart, running, wrapped, closeChanCloses, transactionsCloses,
    closedChanCloses, pc, tran, tmpRes, res, stats, checks, producers, prod,
    pCloseReq, pClosed, err, consTran, consSawClosed, rejects, sent,
    emitted, emittedSrc, relayed, answers, ctorPc, ctorErr, closing,
    closeCalls, flagTransitions, emittedAtClose>>

workerVars == <<wrapped, transactionsCloses, closedChanCloses, pc, tran,
                tmpRes, res, stats, checks, producers, err>>
prodVars == <<prod, pCloseReq, pClosed>>
consVars == <<consTran, consSawClosed, rejects>>
histVars == <<sent, emitted, emittedSrc, relayed, answers>>
callerVars == <<running, closeChanCloses, closing, closeCalls,
                flagTransitions, emittedAtClose>>
confVars == <<msgs, restart, ctorPc, ctorErr>>

(* ----------------------------- helpers --------------------------------- *)
RECURSIVE SeqsUpTo(_, _)
SeqsUpTo(S, n) ==
  IF n = 0 THEN {<<>>}
  ELSE LET shorter == SeqsUpTo(S, n - 1)
       IN shorter \cup {Append(s, x) : s \in {t \in shorter : Len(t) = n - 1}, x \in S}

closeChanClosed == closeChanCloses > 0
transactionsClosed == transactionsCloses > 0
closedChanClosed == closedChanCloses > 0

Incr(name) == [stats EXCEPT ![name] = @ + 1]
Decr(name) == [stats EXCEPT ![name] = @ - 1]

\* the condition of the tests: content equals "bar"
Check(payload) == payload = "bar"

FreshProducer == [state |-> "ready", idx |-> 1]

\* what the producer does with the response to its transaction: next message
\* on success; on error it redelivers the message or moves on
AfterAck(r, redeliver) ==
  IF r = "ok" \/ ~redeliver
  THEN [state |-> "ready", idx |-> prod.idx + 1]
  ELSE [state |-> "ready", idx |-> prod.idx]

(* ------------------------------- Init ---------------------------------- *)
Init ==
  /\ msgs \in SeqsUpTo(Payloads, MaxMsgs)
  /\ restart \in BOOLEAN
  /\ running = 1
  /\ wrapped = 1
  /\ closeChanCloses = 0
  /\ transactionsCloses = 0
  /\ closedChanCloses = 0
  /\ pc = "start"
  /\ tran = NoTran
  /\ tmpRes = NoChan
  /\ res = "none"
  /\ stats = [n \in StatNames |-> 0]
  /\ checks = 0
  /\ producers = 1
  /\ prod = FreshProducer
  /\ pCloseReq = FALSE
  /\ pClosed = FALSE
  /\ err = "nil"
  /\ consTran = NoTran
  /\ consSawClosed = FALSE
  /\ rejects = 0
  /\ sent = <<>>
  /\ emitted = <<>>
  /\ emittedSrc = <<>>
  /\ relayed = <<>>
  /\ answers = <<>>
  /\ ctorPc = "returned"
  /\ ctorErr = "none"
  /\ closing = 0
  /\ closeCalls = 0
  /\ flagTransitions = 0
  /\ emittedAtClose = 0

(* --------------------------- NewReadUntil ------------------------------ *)
NoProducer == [state |-> "none", idx |-> 0]

\* the state in which NewReadUntil is called: no decorator, no worker and no
\* producer exist yet
CtorInit ==
  /\ msgs \in SeqsUpTo(Payloads, MaxMsgs)
  /\ restart \in BOOLEAN
  /\ running = 0
  /\ wrapped = Nil
  /\ closeChanCloses = 0
  /\ transactionsCloses = 0
  /\ closedChanCloses = 0
  /\ pc = "unstarted"
  /\ tran = NoTran
  /\ tmpRes = NoChan
  /\ res = "none"
  /\ stats = [n \in StatNames |-> 0]
  /\ checks = 0
  /\ producers = 0
  /\ prod = NoProducer
  /\ pCloseReq = FALSE
  /\ pClosed = FALSE
  /\ err = "nil"
  /\ consTran = NoTran
  /\ consSawClosed = FALSE
  /\ rejects = 0
  /\ sent = <<>>
  /\ emitted = <<>>
  /\ emittedSrc = <<>>
  /\ relayed = <<>>
  /\ answers = <<>>
  /\ ctorPc = "checkInput"
  /\ ctorErr = "none"
  /\ closing = 0
  /\ closeCalls = 0
  /\ flagTransitions = 0
  /\ emittedAtClose = 0

\* lines 132-134: conf.ReadUntil.Input is nil or not
CtorCheckInput ==
  /\ ctorPc = "checkInput"
  /\ \E inputPresent \in BOOLEAN :
       IF inputPresent
       THEN ctorPc' = "newWrapped" /\ ctorErr' = ctorErr
       ELSE ctorPc' = "returned" /\ ctorErr' = "no child"
  /\ UNCHANGED <<msgs, restart>>
  /\ UNCHANGED <<workerVars, prodVars, consVars, histVars, callerVars>>

\* lines 136-139: New builds (and starts) the wrapped input, or fails
CtorNewWrapped ==
  /\ ctorPc = "newWrapped"
  /\ \E ok \in BOOLEAN :
       IF ok
       THEN /\ producers' = producers + 1
            /\ prod' = FreshProducer
            /\ ctorPc' = "newCond"
            /\ ctorErr' = ctorErr
       ELSE /\ ctorPc' = "returned"
            /\ ctorErr' = "failed to create input"
            /\ UNCHANGED <<producers, prod>>
  /\ UNCHANGED <<wrapped, transactionsCloses, closedChanCloses, pc, tran,
                 tmpRes, res, stats, checks, err, pCloseReq, pClosed>>
  /\ UNCHANGED <<msgs, restart, consVars, histVars, callerVars>>

\* lines 141-144: condition.New builds the condition, or fails
CtorNewCond ==
  /\ ctorPc = "newCond"
  /\ \E ok \in BOOLEAN :
       IF ok
       THEN ctorPc' = "build" /\ ctorErr' = ctorErr
       ELSE ctorPc' = "returned" /\ ctorErr' = "failed to create condition"
  /\ UNCHANGED <<msgs, restart>>
  /\ UNCHANGED <<workerVars, prodVars, consVars, histVars, callerVars>>

\* lines 146-164: the decorator is built, the worker started, and returned
CtorBuild ==
  /\ ctorPc = "build"
  /\ running' = 1
  /\ wrapped' = producers
  /\ pc' = "start"
  /\ ctorPc' = "returned"
  /\ UNCHANGED <<transactionsCloses, closedChanCloses, tran, tmpRes, res,
                 stats, checks, producers, err>>
  /\ UNCHANGED <<closeChanCloses, closing, closeCalls, flagTransitions,
                 emittedAtClose>>
  /\ UNCHANGED <<msgs, restart, ctorErr, prodVars, consVars, histVars>>

\* lines 126-165
NewReadUntil ==
  \/ CtorCheckInput
  \/ CtorNewWrapped
  \/ CtorNewCond
  \/ CtorBuild

\* NewReadUntil returned a decorator
Constructed == ctorPc = "returned" /\ ctorErr = "none"

(* --------------------------- worker: loop() ---------------------------- *)
\* line 182
WorkerStart ==
  /\ pc = "start"
  /\ stats' = Incr("running")
  /\ pc' = "loopCond"
  /\ UNCHANGED <<wrapped, transactionsCloses, closedChanCloses, tran, tmpRes,
                 res, checks, producers, err>>
  /\ UNCHANGED <<prodVars, consVars, histVars, callerVars, confVars>>

\* line 187: the loop condition
LoopRunningAlways == TRUE
LoopRunning == running = 1

\* line 189: restart the input when it has closed?
ShouldRestartAlways == TRUE
ShouldRestartNever == FALSE
ShouldRestart == restart

\* lines 187-189, 199-201
WorkerLoopCond ==
  /\ pc = "loopCond"
  /\ pc' = IF ~LoopRunning THEN "cleanup"
           ELSE IF wrapped # Nil THEN "recv"
           ELSE IF ShouldRestart THEN "restart"
           ELSE "cleanup"
  /\ UNCHANGED <<wrapped, transactionsCloses, closedChanCloses, tran, tmpRes,
                 res, stats, checks, producers, err>>
  /\ UNCHANGED <<prodVars, consVars, histVars, callerVars, confVars>>

\* lines 191-193, 198: New succeeds
WorkerRestartOk ==
  /\ pc = "restart"
  /\ producers < MaxProducers
  /\ producers' = producers + 1
  /\ wrapped' = producers + 1
  /\ prod' = FreshProducer
  /\ pCloseReq' = FALSE
  /\ pClosed' = FALSE
  /\ stats' = Incr("restart.success")
  /\ pc' = "recv"
  /\ UNCHANGED <<transactionsCloses, closedChanCloses, tran, tmpRes, res,
                 checks, err>>
  /\ UNCHANGED <<consVars, histVars, callerVars, confVars>>

\* line 196: where the worker goes when New fails
PcAfterRestartFailRetry == "loopCond"
PcAfterRestartFail == "cleanup"

\* lines 191-196: New fails
WorkerRestartFail ==
  /\ pc = "restart"
  /\ wrapped' = Nil
  /\ stats' = Incr("restart.error")
  /\ pc' = PcAfterRestartFail
  /\ UNCHANGED <<transactionsCloses, closedChanCloses, tran, tmpRes, res,
                 checks, producers, err>>
  /\ UNCHANGED <<prodVars, consVars, histVars, callerVars, confVars>>

\* lines 217, 225-228: where the worker goes with a received payload
PcAfterCheckAll(payload) == "sendFinal"
PcAfterCheckDrop(payload) == IF Check(payload) THEN "sendFinal" ELSE "loopCond"
PcAfterCheck(payload) == IF Check(payload) THEN "sendFinal" ELSE "send"

\* lines 206, 215-217, 228: a transaction arrives from the producer
WorkerRecvTran ==
  /\ pc = "recv"
  /\ prod.state = "ready"
  /\ prod.idx <= Len(msgs)
  /\ LET payload == msgs[prod.idx] IN
       /\ tran' = NewTransaction(payload, OrigChan(wrapped))
       /\ sent' = Append(sent, payload)
       /\ tmpRes' = IF Check(payload) THEN TmpChan(Len(sent) + 1) ELSE tmpRes
       /\ pc' = PcAfterCheck(payload)
  /\ prod' = [prod EXCEPT !.state = "awaitAck"]
  /\ stats' = Incr("count")
  /\ checks' = checks + 1
  /\ UNCHANGED <<wrapped, transactionsCloses, closedChanCloses, res,
                 producers, err, pCloseReq, pClosed>>
  /\ UNCHANGED <<consVars, emitted, emittedSrc, relayed, answers, callerVars,
                 confVars>>

WorkerRecvClosedChecked ==
  /\ pc = "recv"
  /\ prod.state \in {"exhausted", "stopped"}
  /\ stats' = Incr("input.closed")
  /\ checks' = checks + 1
  /\ wrapped' = Nil
  /\ pc' = "loopCond"
  /\ UNCHANGED <<transactionsCloses, closedChanCloses, tran, tmpRes, res,
                 producers, err>>
  /\ UNCHANGED <<prodVars, consVars, histVars, callerVars, confVars>>

\* lines 206-211: the producer's channel is closed
WorkerRecvClosed ==
  /\ pc = "recv"
  /\ prod.state \in {"exhausted", "stopped"}
  /\ stats' = Incr("input.closed")
  /\ wrapped' = Nil
  /\ pc' = "loopCond"
  /\ UNCHANGED <<transactionsCloses, closedChanCloses, tran, tmpRes, res,
                 checks, producers, err>>
  /\ UNCHANGED <<prodVars, consVars, histVars, callerVars, confVars>>

\* a `case <-r.closeChan: return` of the select the worker is blocked in
CloseBranch(at) ==
  /\ pc = at
  /\ closeChanClosed
  /\ pc' = "cleanup"
  /\ UNCHANGED <<wrapped, transactionsCloses, closedChanCloses, tran, tmpRes,
                 res, stats, checks, producers, err>>
  /\ UNCHANGED <<prodVars, consVars, histVars, callerVars, confVars>>

\* lines 212-213
WorkerRecvClose == CloseBranch("recv")

\* lines 219-220, 224: pass the transaction on unchanged
WorkerSend ==
  /\ pc = "send"
  /\ consTran = NoTran
  /\ consTran' = tran
  /\ emitted' = Append(emitted, tran)
  /\ emittedSrc' = Append(emittedSrc, wrapped)
  /\ stats' = Incr("propagated")
  /\ pc' = "loopCond"
  /\ UNCHANGED <<wrapped, transactionsCloses, closedChanCloses, tran, tmpRes,
                 res, checks, producers, err>>
  /\ UNCHANGED <<prodVars, consSawClosed, rejects, sent, relayed, answers,
                 callerVars, confVars>>

\* lines 221-222
WorkerSendClose == CloseBranch("send")

\* lines 230-231: send the intercepted copy
WorkerSendFinal ==
  /\ pc = "sendFinal"
  /\ consTran = NoTran
  /\ consTran' = NewTransaction(tran.payload, tmpRes)
  /\ emitted' = Append(emitted, NewTransaction(tran.payload, tmpRes))
  /\ emittedSrc' = Append(emittedSrc, wrapped)
  /\ stats' = Incr("final.propagated")
  /\ pc' = "awaitRes"
  /\ UNCHANGED <<wrapped, transactionsCloses, closedChanCloses, tran, tmpRes,
                 res, checks, producers, err>>
  /\ UNCHANGED <<prodVars, consSawClosed, rejects, sent, relayed, answers,
                 callerVars, confVars>>

\* lines 232-233
WorkerSendFinalClose == CloseBranch("sendFinal")

\* line 238: the consumer answers on the intercept channel
WorkerRecvRes ==
  /\ pc = "awaitRes"
  /\ consTran # NoTran
  /\ consTran.ack = tmpRes
  /\ \E r \in Responses :
       /\ r = "err" => rejects < MaxRejects
       /\ rejects' = IF r = "err" THEN rejects + 1 ELSE rejects
       /\ res' = r
       /\ answers' = Append(answers, [chan |-> consTran.ack, res |-> r])
  /\ consTran' = NoTran
  /\ pc' = "relay"
  /\ UNCHANGED <<wrapped, transactionsCloses, closedChanCloses, tran, tmpRes,
                 stats, checks, producers, err>>
  /\ UNCHANGED <<prodVars, consSawClosed, sent, emitted, emittedSrc, relayed,
                 callerVars, confVars>>

\* lines 251-252
WorkerResCloseMissing == FALSE /\ UNCHANGED vars
WorkerResClose == CloseBranch("awaitRes")

\* line 241: the value written to tran.ResponseChan
RelayedValueNil(r) == "ok"
RelayedValue(r) == r

\* line 239
StreamEndsNever(r) == FALSE
StreamEndsAlways(r) == TRUE
StreamEnds(r) == r = "ok"

\* lines 239-242, 246-250: relay the response to the original channel
WorkerRelay ==
  /\ pc = "relay"
  /\ prod.state = "awaitAck"
  /\ tran.ack = OrigChan(wrapped)
  /\ \E redeliver \in BOOLEAN : prod' = AfterAck(RelayedValue(res), redeliver)
  /\ relayed' = Append(relayed, [chan |-> tran.ack, res |-> RelayedValue(res),
                                 n |-> Len(sent), from |-> tmpRes])
  /\ IF StreamEnds(res)
     THEN /\ stats' = [stats EXCEPT !["final.response.sent"] = @ + 2]
          /\ pc' = "cleanup"
     ELSE /\ stats' = [stats EXCEPT !["final.response.sent"] = @ + 1,
                                    !["final.response.error"] = @ + 1]
          /\ pc' = "loopCond"
  /\ UNCHANGED <<wrapped, transactionsCloses, closedChanCloses, tran, tmpRes,
                 res, checks, producers, err, pCloseReq, pClosed>>
  /\ UNCHANGED <<consVars, sent, emitted, emittedSrc, answers, callerVars,
                 confVars>>

\* lines 243-244
WorkerRelayClose == CloseBranch("relay")

\* lines 170-172: the deferred cleanup starts
WorkerCleanup ==
  /\ pc = "cleanup"
  /\ IF wrapped # Nil
     THEN /\ pCloseReq' = TRUE
          /\ pc' = "waitWrapped"
     ELSE /\ pCloseReq' = pCloseReq
          /\ pc' = "closeOut"
  /\ UNCHANGED <<wrapped, transactionsCloses, closedChanCloses, tran, tmpRes,
                 res, stats, checks, producers, err>>
  /\ UNCHANGED <<prod, pClosed, consVars, histVars, callerVars, confVars>>

WorkerWaitOkNoWait ==
  /\ pc = "waitWrapped"
  /\ err' = "nil"
  /\ pc' = "closeOut"
  /\ UNCHANGED <<wrapped, transactionsCloses, closedChanCloses, tran, tmpRes,
                 res, stats, checks, producers>>
  /\ UNCHANGED <<prodVars, consVars, histVars, callerVars, confVars>>

\* lines 173-175: wrapped.WaitForClose reports success
WorkerWaitOk ==
  /\ pc = "waitWrapped"
  /\ pClosed
  /\ err' = "nil"
  /\ pc' = "closeOut"
  /\ UNCHANGED <<wrapped, transactionsCloses, closedChanCloses, tran, tmpRes,
                 res, stats, checks, producers>>
  /\ UNCHANGED <<prodVars, consVars, histVars, callerVars, confVars>>

WorkerWaitTimeoutGiveUp ==
  /\ pc = "waitWrapped"
  /\ ~pClosed
  /\ err' = "ErrTimeout"
  /\ pc' = "closeOut"
  /\ UNCHANGED <<wrapped, transactionsCloses, closedChanCloses, tran, tmpRes,
                 res, stats, checks, producers>>
  /\ UNCHANGED <<prodVars, consVars, histVars, callerVars, confVars>>

\* lines 173-175: wrapped.WaitForClose times out and is called again
WorkerWaitTimeout ==
  /\ pc = "waitWrapped"
  /\ ~pClosed
  /\ err' = "ErrTimeout"
  /\ UNCHANGED <<wrapped, transactionsCloses, closedChanCloses, pc, tran,
                 tmpRes, res, stats, checks, producers>>
  /\ UNCHANGED <<prodVars, consVars, histVars, callerVars, confVars>>

\* lines 177-179
WorkerCloseTransactions ==
  /\ pc = "closeOut"
  /\ stats' = Decr("running")
  /\ transactionsCloses' = transactionsCloses + 1
  /\ pc' = "closeClosed"
  /\ UNCHANGED <<wrapped, closedChanCloses, tran, tmpRes, res, checks,
                 producers, err>>
  /\ UNCHANGED <<prodVars, consVars, histVars, callerVars, confVars>>

WorkerCloseClosedChanSkip ==
  /\ pc = "closeClosed"
  /\ pc' = "done"
  /\ UNCHANGED <<wrapped, transactionsCloses, closedChanCloses, tran, tmpRes,
                 res, stats, checks, producers, err>>
  /\ UNCHANGED <<prodVars, consVars, histVars, callerVars, confVars>>

\* line 180
WorkerCloseClosedChan ==
  /\ pc = "closeClosed"
  /\ closedChanCloses' = closedChanCloses + 1
  /\ pc' = "done"
  /\ UNCHANGED <<wrapped, transactionsCloses, tran, tmpRes, res, stats,
                 checks, producers, err>>
  /\ UNCHANGED <<prodVars, consVars, histVars, callerVars, confVars>>

(* --------------------------- wrapped producer -------------------------- *)
\* the producer has no more data and closes its transaction channel
ProducerExhaust ==
  /\ prod.state = "ready"
  /\ prod.idx > Len(msgs)
  /\ prod' = [prod EXCEPT !.state = "exhausted"]
  /\ UNCHANGED <<pCloseReq, pClosed>>
  /\ UNCHANGED <<workerVars, consVars, histVars, callerVars, confVars>>

\* the producer honours CloseAsync: it stops and confirms its close
ProducerConfirmClose ==
  /\ pCloseReq
  /\ ~pClosed
  /\ pClosed' = TRUE
  /\ prod' = [prod EXCEPT !.state = "stopped"]
  /\ UNCHANGED pCloseReq
  /\ UNCHANGED <<workerVars, consVars, histVars, callerVars, confVars>>

(* -------------------------- downstream consumer ------------------------ *)
\* the consumer answers a passed-through transaction: the response goes to
\* the producer directly
ConsumerRespondOrig ==
  /\ consTran # NoTran
  /\ consTran.ack.kind = "orig"
  /\ prod.state = "awaitAck"
  /\ \E r \in Responses, redeliver \in BOOLEAN :
       /\ r = "err" => rejects < MaxRejects
       /\ rejects' = IF r = "err" THEN rejects + 1 ELSE rejects
       /\ prod' = AfterAck(r, redeliver)
  /\ consTran' = NoTran
  /\ UNCHANGED <<pCloseReq, pClosed, consSawClosed>>
  /\ UNCHANGED <<workerVars, histVars, callerVars, confVars>>

\* the consumer reads from the closed r.transactions
ConsumerRecvClosed ==
  /\ transactionsClosed
  /\ consTran = NoTran
  /\ ~consSawClosed
  /\ consSawClosed' = TRUE
  /\ UNCHANGED <<consTran, rejects>>
  /\ UNCHANGED <<workerVars, prodVars, histVars, callerVars, confVars>>

(* ----------------------- CloseAsync / WaitForClose --------------------- *)
\* line 264: atomic.CompareAndSwapInt32(&r.running, 1, 0)
CompareAndSwapBlind == TRUE
CompareAndSwap == running = 1

\* line 264: some caller enters CloseAsync; any number of callers may be
\* inside it at once
CloseAsyncCAS ==
  /\ closeCalls < MaxCloseCalls
  /\ closeCalls' = closeCalls + 1
  /\ IF CompareAndSwap
     THEN /\ flagTransitions' = IF running = 1 THEN flagTransitions + 1
                                ELSE flagTransitions
          /\ emittedAtClose' = IF running = 1 THEN Len(emitted)
                               ELSE emittedAtClose
          /\ running' = 0
          /\ closing' = closing + 1
     ELSE UNCHANGED <<running, flagTransitions, emittedAtClose, closing>>
  /\ UNCHANGED closeChanCloses
  /\ UNCHANGED <<workerVars, prodVars, consVars, histVars, confVars>>

\* line 265: a caller whose compare-and-swap succeeded closes r.closeChan
CloseAsyncClose ==
  /\ closing > 0
  /\ closeChanCloses' = closeChanCloses + 1
  /\ closing' = closing - 1
  /\ UNCHANGED <<running, closeCalls, flagTransitions, emittedAtClose>>
  /\ UNCHANGED <<workerVars, prodVars, consVars, histVars, confVars>>

\* lines 270-277: what a WaitForClose call (with a positive timeout) that
\* returns in the current state returns; the call neither blocks for longer
\* than its timeout nor changes anything
WaitForClose == IF closedChanClosed THEN "nil" ELSE "ErrTimeout"

(* ---------------------------- specification ---------------------------- *)
\* the steps the worker takes without a partner
WorkerLocal ==
  \/ WorkerStart
  \/ WorkerLoopCond
  \/ WorkerRestartOk
  \/ WorkerRestartFail
  \/ WorkerRecvClosed
  \/ WorkerRecvClose
  \/ WorkerSendClose
  \/ WorkerSendFinalClose
  \/ WorkerResClose
  \/ WorkerRelayClose
  \/ WorkerCleanup
  \/ WorkerWaitOk
  \/ WorkerCloseTransactions
  \/ WorkerCloseClosedChan

Next ==
  \/ WorkerLocal
  \/ WorkerWaitTimeout
  \/ WorkerRecvTran
  \/ WorkerSend
  \/ WorkerSendFinal
  \/ WorkerRecvRes
  \/ WorkerRelay
  \/ ProducerExhaust
  \/ ProducerConfirmClose
  \/ ConsumerRespondOrig
  \/ ConsumerRecvClosed
  \/ CloseAsyncCAS
  \/ CloseAsyncClose

Spec == Init /\ [][Next]_vars

\* the worker goroutine keeps running, a caller inside CloseAsync finishes it,
\* and the wrapped producer confirms a requested close
FairSpec ==
  /\ Spec
  /\ WF_vars(WorkerLocal)
  /\ WF_vars(ProducerConfirmClose)
  /\ WF_vars(CloseAsyncClose)

\* a call of NewReadUntil followed, when it returns a decorator, by the life
\* of that decorator
CtorNext ==
  \/ NewReadUntil
  \/ (Constructed /\ Next)

CtorSpec == CtorInit /\ [][CtorNext]_vars

TypeOK ==
  /\ running \in {0, 1}
  /\ wrapped \in 0..MaxProducers
  /\ pc \in {"unstarted", "start", "loopCond", "restart", "recv", "send", "sendFinal",
             "awaitRes", "relay", "cleanup", "waitWrapped", "closeOut",
             "closeClosed", "done"}
  /\ Len(emitted) = Len(emittedSrc)

(* ------------------------------ properties ----------------------------- *)
AcceptedFinal == \E i \in 1..Len(relayed) : relayed[i].res = "ok"
RestartFailed == stats["restart.error"] > 0
InCleanup == pc \in {"cleanup", "waitWrapped", "closeOut", "closeClosed", "done"}
EmittedPayloads == [i \in 1..Len(emitted) |-> emitted[i].payload]
IsPrefix(s, t) == Len(s) <= Len(t) /\ SubSeq(t, 1, Len(s)) = s
OneMatchAt(k) ==
  /\ k \in 1..Len(msgs)
  /\ \A i \in 1..Len(msgs) : Check(msgs[i]) <=> i = k

\* C1: once an accepting response to the intercepted transaction has been
\* relayed, the worker reads nothing more from the producer and forwards
\* nothing more, and eventually r.transactions and r.closedChan are closed
\* (so WaitForClose returns nil), given that the producer confirms its close.
C1_TerminationOnAccept ==
  /\ [][AcceptedFinal => (sent' = sent /\ emitted' = emitted)]_vars
  /\ (AcceptedFinal ~> (transactionsClosed /\ closedChanClosed))

C1_Witness ==
  /\ AcceptedFinal
  /\ pc = "done"
  /\ closeCalls = 0
  /\ consSawClosed
  /\ WaitForClose = "nil"
  /\ prod.idx <= Len(msgs)

\* C2: when exactly the k-th message of the producer matches the condition,
\* every response is a success and CloseAsync is never called, the payloads
\* emitted are always a prefix of messages 1..k, and are exactly messages 1..k
\* once the k-th is accepted or the worker has finished.
C2_OrderingPrefix ==
  \A k \in 1..Len(msgs) :
    (OneMatchAt(k) /\ rejects = 0 /\ closeCalls = 0) =>
      /\ IsPrefix(EmittedPayloads, SubSeq(msgs, 1, k))
      /\ (AcceptedFinal \/ pc = "done") => EmittedPayloads = SubSeq(msgs, 1, k)

C2_Witness ==
  /\ OneMatchAt(2)
  /\ rejects = 0
  /\ closeCalls = 0
  /\ pc = "done"
  /\ EmittedPayloads = SubSeq(msgs, 1, 2)

\* C3: relaying a rejection of the intercepted transaction sends the worker
\* back to the top of the loop with the same producer, neither closed nor
\* asked to close, and the output channel open; and without CloseAsync the
\* worker leaves the loop while holding a producer only after relaying an
\* accepting response.
C3_NonTerminationOnReject ==
  /\ [][(Len(relayed') > Len(relayed) /\ res = "err") =>
          /\ pc' = "loopCond"
          /\ wrapped' = wrapped
          /\ wrapped' # Nil
          /\ ~pCloseReq'
          /\ ~transactionsClosed']_vars
  /\ []((InCleanup /\ running = 1 /\ wrapped # Nil) =>
          (relayed # <<>> /\ relayed[Len(relayed)].res = "ok"))

C3_Witness ==
  /\ Len(relayed) = 2
  /\ relayed[1].res = "err"
  /\ relayed[2].res = "ok"
  /\ Len(emitted) >= 2
  /\ emitted[Len(emitted)].payload = emitted[Len(emitted) - 1].payload
  /\ emitted[Len(emitted)].ack.kind = "tmp"
  /\ emitted[Len(emitted) - 1].ack.kind = "tmp"
  /\ emitted[Len(emitted)].ack # emitted[Len(emitted) - 1].ack
  /\ producers = 1
  /\ closeCalls = 0
  /\ pc = "done"

\* C4 as stated: once CloseAsync has closed r.closeChan, nothing more is
\* emitted on r.transactions.
C4_NoEmitAfterClose ==
  [][closeChanClosed => emitted' = emitted]_vars

\* C4 amended: after r.running became 0 at most one more transaction is
\* emitted (the one of the loop iteration in progress), and none once the
\* worker has left the loop.
C4_AtMostOneAfterClose ==
  /\ [](running = 0 => Len(emitted) <= emittedAtClose + 1)
  /\ [][InCleanup => emitted' = emitted]_vars

C4_Witness ==
  /\ closeChanClosed
  /\ Len(emitted) = emittedAtClose + 1
  /\ emittedAtClose >= 1
  /\ pc = "done"

\* C5: after CloseAsync the worker always reaches its cleanup, whatever it
\* was blocked in and even if the producer and the consumer never act again,
\* and with a producer that confirms its close r.closedChan is closed
\* eventually, so WaitForClose returns nil.
C5_PromptShutdown ==
  /\ (running = 0) ~> InCleanup
  /\ (running = 0) ~> (transactionsClosed /\ closedChanClosed)

C5_Witness ==
  /\ closeChanClosed
  /\ pc = "done"
  /\ consTran # NoTran
  /\ consTran.ack.kind = "tmp"
  /\ relayed = <<>>
  /\ WaitForClose = "nil"

\* C6: with restart_input false, once the worker has seen the producer's
\* channel closed, everything the producer handed over has been emitted, no
\* second producer was built or is about to be, and the output channel and
\* r.closedChan are closed eventually, CloseAsync called or not.
C6_ExhaustionWithoutRestart ==
  /\ []((~restart /\ wrapped = Nil) =>
          /\ producers = 1
          /\ pc # "restart"
          /\ EmittedPayloads = sent)
  /\ ((~restart /\ wrapped = Nil) ~> (transactionsClosed /\ closedChanClosed))

C6_Witness ==
  /\ ~restart
  /\ wrapped = Nil
  /\ Len(msgs) = 2
  /\ EmittedPayloads = msgs
  /\ closeCalls = 0
  /\ pc = "done"
  /\ consSawClosed
  /\ WaitForClose = "nil"

\* C7: with restart_input true the worker leaves its loop, and the output
\* channel is closed, only after a CloseAsync call, a failed restart or an
\* accepted final message.
C7_ExhaustionWithRestart ==
  (restart /\ (InCleanup \/ transactionsClosed)) =>
    (closeCalls > 0 \/ RestartFailed \/ AcceptedFinal)

C7_Witness ==
  /\ restart
  /\ Len(msgs) = 2
  /\ producers = 2
  /\ EmittedPayloads = msgs \o msgs
  /\ emittedSrc = <<1, 1, 2, 2>>
  /\ closeCalls = 0
  /\ ~InCleanup

\* C8: however many CloseAsync calls are made and however they interleave
\* with each other and the worker, r.closeChan and r.closedChan are closed at
\* most once, finished calls leave running 0 and the signal closed, and a
\* caller inside CloseAsync can always finish it (WaitForClose returns by its
\* timeout at the latest).
C8_IdempotentClose ==
  /\ closeChanCloses <= 1
  /\ closedChanCloses <= 1
  /\ (closeCalls > 0 /\ closing = 0) => (running = 0 /\ closeChanCloses = 1)
  /\ closing > 0 => ENABLED CloseAsyncClose

C8_Witness ==
  /\ closeCalls = MaxCloseCalls
  /\ closing = 0
  /\ closeChanCloses = 1
  /\ closedChanCloses = 1
  /\ WaitForClose = "nil"

\* C9 as stated: a worker that has finished has seen the running flag go
\* from 1 to 0 exactly once and r.closeChan closed exactly once.
C9_ExactlyOnce ==
  (pc = "done" /\ closing = 0) =>
    (flagTransitions = 1 /\ closeChanCloses = 1)

\* C9 amended: when the worker has finished, the flag went 1 -> 0 and
\* r.closeChan was closed at most once; both happened exactly once if
\* CloseAsync was called, and neither happened (running is still 1, the
\* signal still open) if it was not.
C9_AtMostOnce ==
  pc = "done" =>
    /\ flagTransitions <= 1
    /\ closeChanCloses <= 1
    /\ closeCalls = 0 =>
         (flagTransitions = 0 /\ closeChanCloses = 0 /\ running = 1)
    /\ (closeCalls > 0 /\ closing = 0) =>
         (flagTransitions = 1 /\ closeChanCloses = 1 /\ running = 0)

C9_Witness ==
  /\ pc = "done"
  /\ closeCalls = 0
  /\ running = 1
  /\ ~closeChanClosed
  /\ AcceptedFinal

\* C10: after a failed restart no other producer is built, nothing more is
\* read, emitted or relayed, no second restart fails, and the output channel
\* and r.closedChan are closed eventually.
C10_RestartFailureFatal ==
  /\ [][RestartFailed =>
          /\ producers' = producers
          /\ sent' = sent
          /\ emitted' = emitted
          /\ relayed' = relayed
          /\ stats'["restart.error"] = stats["restart.error"]]_vars
  /\ (RestartFailed ~> (transactionsClosed /\ closedChanClosed))

C10_Witness ==
  /\ RestartFailed
  /\ closeCalls = 0
  /\ pc = "done"
  /\ Len(emitted) = Len(msgs)
  /\ Len(msgs) > 0
  /\ WaitForClose = "nil"

\* C11: when NewReadUntil returns an error there is no decorator and no
\* worker, and no producer built during the call is left running (none was
\* built, or the one built was asked to close).
C11_NoPartialConstruction ==
  (ctorPc = "returned" /\ ctorErr # "none") =>
    /\ pc = "unstarted"
    /\ wrapped = Nil
    /\ running = 0
    /\ (producers = 0 \/ pCloseReq)

\* C12: every matching transaction is emitted as a copy with the payload
\* received and an intercept channel of its own, never the original one; the
\* worker writes to an original channel only the response the consumer gave
\* on the intercept channel of that transaction, at most once per received
\* transaction, and writes nothing once it has left the loop.
C12_InterceptionRelay ==
  /\ [](/\ \A i \in 1..Len(emitted) :
             Check(emitted[i].payload) =>
               /\ emitted[i].ack.kind = "tmp"
               /\ emitted[i].ack # OrigChan(emittedSrc[i])
               /\ emitted[i].payload = sent[i]
               /\ \A j \in 1..Len(emitted) :
                    j # i => emitted[j].ack # emitted[i].ack
        /\ Len(relayed) <= Len(answers)
        /\ \A i \in 1..Len(relayed) :
             /\ relayed[i].chan.kind = "orig"
             /\ relayed[i].res = answers[i].res
             /\ relayed[i].from = answers[i].chan
             /\ \A j \in 1..Len(relayed) :
                  j # i => relayed[j].n # relayed[i].n)
  /\ [][InCleanup => relayed' = relayed]_vars

C12_Witness ==
  /\ Len(answers) = 2
  /\ Len(relayed) = 1
  /\ relayed[1].res = "err"
  /\ answers[2].res = "ok"
  /\ closeChanClosed
  /\ pc = "done"

\* C13: at most one received transaction is not yet emitted; the worker is
\* back at the top of its loop or reading only when everything received was
\* emitted; and it leaves the loop with a received transaction not emitted
\* only when r.closeChan is closed.
C13_NoSilentDrop ==
  /\ Len(sent) - Len(emitted) \in {0, 1}
  /\ IsPrefix(EmittedPayloads, sent)
  /\ pc \in {"loopCond", "restart", "recv"} => Len(emitted) = Len(sent)
  /\ (InCleanup /\ Len(emitted) < Len(sent)) => closeChanClosed

C13_Witness ==
  /\ pc = "done"
  /\ Len(sent) = 2
  /\ Len(emitted) = 1
  /\ closeChanClosed
  /\ consTran = NoTran

\* C14: r.transactions and r.closedChan are each closed at most once, and
\* exactly once when the worker has finished, whatever made it leave the
\* loop; once in cleanup the worker stays there, a closed r.transactions
\* stays closed, and nothing is emitted after it was closed.
C14_CleanupOnce ==
  /\ [](/\ transactionsCloses <= 1
        /\ closedChanCloses <= 1
        /\ pc = "done" => (transactionsCloses = 1 /\ closedChanCloses = 1))
  /\ [][InCleanup => InCleanup']_vars
  /\ [][transactionsClosed => (transactionsClosed' /\ emitted' = emitted)]_vars

C14_Witness ==
  /\ pc = "done"
  /\ running = 0
  /\ ~closeChanClosed
  /\ wrapped # Nil
  /\ transactionsCloses = 1
  /\ closedChanCloses = 1

\* C15: r.closedChan is closed only after r.transactions, and when the
\* worker left the loop holding a producer, r.transactions is closed only
\* after that producer was asked to close and confirmed it.
C15_CleanupOrdering ==
  /\ closedChanClosed => transactionsClosed
  /\ (transactionsClosed /\ wrapped # Nil) => (pCloseReq /\ pClosed)

C15_Witness ==
  /\ closedChanClosed
  /\ transactionsClosed
  /\ wrapped # Nil
  /\ pCloseReq
  /\ pClosed
  /\ WaitForClose = "nil"

\* C16: while the worker waits in cleanup for a producer that has not
\* confirmed its close, r.transactions and r.closedChan stay open and
\* WaitForClose times out, and the worker does not get past the wait; this
\* also holds when the worker left the loop on an accepted final message.
C16_ShutdownStall ==
  /\ []((pc = "waitWrapped" /\ ~pClosed) =>
          /\ ~transactionsClosed
          /\ ~closedChanClosed
          /\ WaitForClose = "ErrTimeout")
  /\ [][(pc = "waitWrapped" /\ ~pClosed') => pc' = "waitWrapped"]_vars

C16_Witness ==
  /\ pc = "waitWrapped"
  /\ ~pClosed
  /\ err = "ErrTimeout"
  /\ AcceptedFinal
  /\ closeCalls = 0
  /\ WaitForClose = "ErrTimeout"

\* C17: r.wrapped is either nil or the producer built last; a producer is
\* built by the worker only with restart_input true, r.wrapped nil and the
\* previous producer's channel seen closed; and the transactions of an
\* earlier producer are all emitted before those of a later one.
C17_SingleProducer ==
  /\ [](/\ wrapped \in {Nil, producers}
        /\ producers <= stats["input.closed"] + 1
        /\ \A i, j \in 1..Len(emittedSrc) :
             i < j => emittedSrc[i] <= emittedSrc[j])
  /\ [][producers' # producers =>
          /\ restart
          /\ wrapped = Nil
          /\ prod.state = "exhausted"
          /\ producers' = producers + 1
          /\ wrapped' = producers']_vars

C17_Witness ==
  /\ restart
  /\ producers = 2
  /\ wrapped = 2
  /\ emittedSrc = <<1, 2>>
  /\ stats["input.closed"] = 1

\* C18: a transaction whose payload does not match is emitted with the
\* payload and the response channel it was received with; the worker writes
\* to original channels only for matching transactions and reads responses
\* only from intercept channels.
C18_PassThrough ==
  /\ \A i \in 1..Len(emitted) :
       ~Check(emitted[i].payload) =>
         /\ emitted[i].payload = sent[i]
         /\ emitted[i].ack = OrigChan(emittedSrc[i])
  /\ \A i \in 1..Len(relayed) : Check(sent[relayed[i].n])
  /\ \A i \in 1..Len(answers) : answers[i].chan.kind = "tmp"

C18_Witness ==
  /\ Len(emitted) = 2
  /\ ~Check(emitted[1].payload)
  /\ ~Check(emitted[2].payload)
  /\ emitted[2].ack = OrigChan(1)
  /\ consTran = NoTran
  /\ prod.idx = 3
  /\ relayed = <<>>
  /\ answers = <<>>

\* C19: the condition has been evaluated exactly once for every transaction
\* received, redeliveries included, and for nothing else (not for a closed
\* producer channel, not for the intercepted copy), and always before the
\* transaction is emitted.
C19_CheckOncePerReceived ==
  /\ checks = Len(sent)
  /\ checks = stats["count"]
  /\ Len(emitted) <= checks

C19_Witness ==
  /\ Len(msgs) = 1
  /\ checks = 2
  /\ producers = 1
  /\ Len(emitted) = 2
  /\ AcceptedFinal

\* C20: input.read_until.final.response.sent equals the number of responses
\* relayed to original channels, and final.response.error the number of
\* rejections among them.
C20_ResponseCounters ==
  /\ stats["final.response.sent"] = Len(relayed)
  /\ stats["final.response.error"] =
       Cardinality({i \in 1..Len(relayed) : relayed[i].res = "err"})
====
